---------------------------- MODULE Spec2Model ----------------------------
(***************************************************************************)
(* docx-you-want: the Docx package assembler (src/src/lib.rs) and the CLI *)
(* driver (src/src/main.rs).                                               *)
(*                                                                         *)
(* Strings are sequences of tokens: a fixed XML fragment is one token, a   *)
(* formatted number is its decimal digits, one token per character, so    *)
(* that format!("rId{}", id) and the reading back of an identifier are    *)
(* real conversions.  f64 values are IEEE-754 binary64 numbers kept as    *)
(* sign, 53-bit significand (least significant bit first) and exponent;   *)
(* every arithmetic operation rounds to nearest, ties to even, as the     *)
(* hardware does.                                                          *)
(***************************************************************************)
EXTENDS Integers, Sequences, FiniteSets, TLC

(***************************************************************************)
(* Naturals of any width (a double's 53-bit significand and the products  *)
(* and quotients on the way to it do not fit a 32-bit integer).  A number  *)
(* is the sequence of its binary digits, least significant first, without  *)
(* leading zeros: << >> is 0, << 1 >> is 1, << 0, 1 >> is 2.  Sums with    *)
(* carries run over limbs of ten bits, which keeps every intermediate      *)
(* product inside the model checker's integers.                            *)
(***************************************************************************)
Zeros(k) == [i \in 1..k |-> 0]

Bits(n) ==
    LET w == Cardinality({k \in 0..30 : 2^k <= n})
    IN  [i \in 1..w |-> (n \div 2^(i - 1)) % 2]

Strip(b) ==
    LET ones == {i \in 1..Len(b) : b[i] = 1}
    IN  IF ones = {} THEN << >>
        ELSE SubSeq(b, 1, CHOOSE i \in ones : \A j \in ones : j <= i)

ToLimbs(b) ==
    LET bit(k) == IF k <= Len(b) THEN b[k] ELSE 0
    IN  [j \in 1..((Len(b) + 9) \div 10) |->
            LET o == 10 * (j - 1)
            IN  bit(o + 1) + 2 * bit(o + 2) + 4 * bit(o + 3) + 8 * bit(o + 4)
                + 16 * bit(o + 5) + 32 * bit(o + 6) + 64 * bit(o + 7)
                + 128 * bit(o + 8) + 256 * bit(o + 9) + 512 * bit(o + 10)]

(* The digits of the number whose limbs are l: FromLimbs(<< 0, 0 >>) is   *)
(* << >>, the number 0. *)
FromLimbs(l) ==
    Strip([i \in 1..(10 * Len(l)) |->
              (l[((i - 1) \div 10) + 1] \div 2^((i - 1) % 10)) % 2])

RECURSIVE LimbsVal(_)
LimbsVal(l) == IF l = << >> THEN 0 ELSE l[1] + 1024 * LimbsVal(Tail(l))

(* The value of at most 31 bits. *)
BitsVal(b) == LimbsVal(ToLimbs(b))

RECURSIVE MulCarry(_, _, _)
MulCarry(l, c, carry) ==
    IF l = << >> THEN << carry % 1024, carry \div 1024 >>
    ELSE LET t == l[1] * c + carry
         IN  << t % 1024 >> \o MulCarry(Tail(l), c, t \div 1024)

(* b * c, for 0 < c < 2^20. *)
BitsMul(b, c) == FromLimbs(MulCarry(ToLimbs(b), c, 0))

(* Long division by c, 0 < c < 2^20, from the most significant limb. *)
RECURSIVE DivStep(_, _, _, _)
DivStep(l, i, c, st) ==
    IF i = 0 THEN st
    ELSE LET r == 1024 * st.r + l[i]
         IN  DivStep(l, i - 1, c, [q |-> << r \div c >> \o st.q, r |-> r % c])

DivResult(st) == [q |-> FromLimbs(st.q), r |-> st.r]

LimbsDivMod(l, c) == DivResult(DivStep(l, Len(l), c, [q |-> << >>, r |-> 0]))

BitsDivMod(b, c) == LimbsDivMod(ToLimbs(b), c)

(* The digits of b + 1: BitsInc(<< >>) is << 1 >>, the number 1. *)
BitsInc(b) ==
    LET zeros == {i \in 1..Len(b) : b[i] = 0}
    IN  IF zeros = {} THEN Zeros(Len(b)) \o << 1 >>
        ELSE LET z == CHOOSE i \in zeros : \A j \in zeros : i <= j
             IN  [i \in 1..Len(b) |-> IF i < z THEN 0 ELSE IF i = z THEN 1 ELSE b[i]]

(***************************************************************************)
(* f64.  A value is [sign, man, exp] and stands for                        *)
(* (-1)^sign * BitsVal(man) * 2^exp; man has 53 bits with the top bit set, *)
(* or is all zero.                                                         *)
(***************************************************************************)
F64Zero(sign) == [sign |-> sign, man |-> Zeros(53), exp |-> 0]

F64IsZero(x) == \A i \in 1..53 : x.man[i] = 0

(* Round a natural b * 2^exp (b stripped; sticky: a non-zero part below   *)
(* b was already dropped) to 53 bits, nearest, ties to even.               *)
F64Round(sign, b, exp, sticky) ==
    LET L == Len(b)
    IN  IF L = 0 THEN F64Zero(sign)
        ELSE IF L <= 53
             THEN [sign |-> sign, man |-> Zeros(53 - L) \o b, exp |-> exp - (53 - L)]
        ELSE LET shift == L - 53
                 kept  == SubSeq(b, shift + 1, L)
                 guard == b[shift]
                 rest  == sticky \/ \E i \in 1..(shift - 1) : b[i] = 1
                 up    == guard = 1 /\ (rest \/ kept[1] = 1)
                 inc   == BitsInc(kept)
             IN  IF ~up THEN [sign |-> sign, man |-> kept, exp |-> exp + shift]
                 ELSE IF Len(inc) = 54
                      THEN [sign |-> sign, man |-> Tail(inc), exp |-> exp + shift + 1]
                 ELSE [sign |-> sign, man |-> inc, exp |-> exp + shift]

(* An integer as f64 (exact below 2^53). *)
F64FromInt(n) ==
    F64Round(IF n < 0 THEN 1 ELSE 0, Bits(IF n < 0 THEN 0 - n ELSE n), 0, FALSE)

(* x / c and x * c for a positive integer-valued f64 c. *)
F64RoundQuotient(sign, qr, exp) == F64Round(sign, qr.q, exp, qr.r # 0)

(* The significand is extended by k bits before the division, enough for  *)
(* a guard bit below the 53 kept; the remainder is the sticky part.        *)
F64DivExtended(x, c, k) ==
    F64RoundQuotient(x.sign, BitsDivMod(Zeros(k) \o x.man, c), x.exp - k)

F64Div(x, c) ==
    IF F64IsZero(x) THEN x ELSE F64DivExtended(x, c, Len(Bits(c)) + 2)

F64Mul(x, c) ==
    IF F64IsZero(x) THEN x
    ELSE F64Round(x.sign, BitsMul(x.man, c), x.exp, FALSE)

(* The decimal literal m / 1000 (three fractional digits), correctly      *)
(* rounded, as the compiler reads 793.707 and as an SVG length is parsed.  *)
F64Dec(m) == F64Div(F64FromInt(m), 1000)

(* `x as i32`: toward zero, saturating. *)
I32Max == 2147483647
I32Min == 0 - 2147483647 - 1

(* The integer part of |x|, in binary. *)
F64IntBits(x) ==
    IF x.exp >= 0
    THEN (IF x.exp > 31 THEN Zeros(32) \o x.man ELSE Zeros(x.exp) \o x.man)
    ELSE IF 0 - x.exp >= 53 THEN << >>
    ELSE SubSeq(x.man, 1 - x.exp, 53)

I32Saturate(sign, m) ==
    IF Len(m) > 31 THEN (IF sign = 1 THEN I32Min ELSE I32Max)
    ELSE IF sign = 1 THEN 0 - BitsVal(m) ELSE BitsVal(m)

(* The cast rounds half away from zero. *)
F64ToI32Nearest(x) ==
    I32Saturate(x.sign,
        IF x.exp < 0 /\ 0 - x.exp <= 53 /\ x.man[0 - x.exp] = 1
        THEN BitsInc(Strip(F64IntBits(x))) ELSE Strip(F64IntBits(x)))

F64ToI32(x) == I32Saturate(x.sign, Strip(F64IntBits(x)))

(***************************************************************************)
(* Unit conversions, lib.rs 61-71.                                         *)
(***************************************************************************)
px_to_emu(px) ==
    LET dpi == 96
        emus_per_inch == 914400
    IN  F64ToI32(F64Mul(F64Div(px, dpi), emus_per_inch))

px_to_twenties_of_pt(px) ==
    LET dpi == 96
        pt_per_inch == 72
    IN  F64ToI32(F64Mul(F64Mul(F64Div(px, dpi), pt_per_inch), 20))

(***************************************************************************)
(* Strings.  Display of an i32 and its reading back.                       *)
(***************************************************************************)
DigitChars == << "0", "1", "2", "3", "4", "5", "6", "7", "8", "9" >>

IsDigit(t) == \E d \in 1..10 : DigitChars[d] = t

DigitVal(t) == (CHOOSE d \in 1..10 : DigitChars[d] = t) - 1

NatDisplay(n) ==
    LET w == Cardinality({k \in 1..9 : 10^k <= n}) + 1
    IN  [i \in 1..w |-> DigitChars[((n \div 10^(w - i)) % 10) + 1]]

(* format!("{}", n) *)
Display(n) == IF n < 0 THEN << "-" >> \o NatDisplay(0 - n) ELSE NatDisplay(n)

RECURSIVE ParseNatFrom(_, _)
ParseNatFrom(ds, acc) ==
    IF ds = << >> THEN acc ELSE ParseNatFrom(Tail(ds), 10 * acc + DigitVal(ds[1]))

(* The number written from position i of s on: the longest run of digits. *)
NumAt(s, i) ==
    LET stops == {j \in i..Len(s) : ~IsDigit(s[j])}
        end   == IF stops = {} THEN Len(s) + 1
                 ELSE CHOOSE j \in stops : \A k \in stops : j <= k
    IN  IF end = i THEN -1 ELSE ParseNatFrom(SubSeq(s, i, end - 1), 0)

(* The positions of token t in s, in increasing order. *)
Positions(s, t) ==
    LET I == {i \in 1..Len(s) : s[i] = t}
    IN  [k \in 1..Cardinality(I) |->
            CHOOSE i \in I : Cardinality({j \in I : j <= i}) = k]

Count(s, t) == Cardinality({i \in 1..Len(s) : s[i] = t})

(* str::replace(from, to): every occurrence of the token is replaced. *)
RECURSIVE Replace(_, _, _)
Replace(s, from, to) ==
    LET I == {i \in 1..Len(s) : s[i] = from}
    IN  IF I = {} THEN s
        ELSE LET i == CHOOSE x \in I : \A y \in I : x <= y
             IN  SubSeq(s, 1, i - 1) \o to
                 \o Replace(SubSeq(s, i + 1, Len(s)), from, to)

(***************************************************************************)
(* Paths: a directory and a file name; a file name is a token string.      *)
(***************************************************************************)
MediaDir == "word/media"
TestsDir == "tests"

Path(dir, name) == [dir |-> dir, name |-> name]

(* lib.rs 73-75 *)
get_filename(svg) == svg.name

(* lib.rs 91-99 *)
get_png_path(prefix, svg_path) ==
    Path(prefix, Replace(svg_path.name, "svg", << "png" >>))

(* format!("{}.svg", page), lib.rs 289 *)
PageSvg(page) == Path(MediaDir, Display(page) \o << ".", "svg" >>)

(***************************************************************************)
(* The XML that add_to_doc and add_relationship format.                    *)
(***************************************************************************)
TokP        == "<w:p><w:pPr><w:widowControl/><w:jc w:val=\"left\"/></w:pPr><w:r><w:rPr><w:noProof/></w:rPr><w:drawing><wp:inline distT=\"0\" distB=\"0\" distL=\"0\" distR=\"0\">"
TokExtentCx == "<wp:extent cx=\""
TokCy       == "\" cy=\""
TokDocPrId  == "\"/><wp:effectExtent l=\"0\" t=\"0\" r=\"0\" b=\"0\"/><wp:docPr id=\""
TokName     == "\" name=\""
TokBlip     == "\"/><wp:cNvGraphicFramePr><a:graphicFrameLocks xmlns:a=\"http://schemas.openxmlformats.org/drawingml/2006/main\" noChangeAspect=\"1\"/></wp:cNvGraphicFramePr><a:graphic xmlns:a=\"http://schemas.openxmlformats.org/drawingml/2006/main\"><a:graphicData uri=\"http://schemas.openxmlformats.org/drawingml/2006/picture\"><pic:pic xmlns:pic=\"http://schemas.openxmlformats.org/drawingml/2006/picture\"><pic:nvPicPr><pic:cNvPr id=\"1\" name=\"\"/><pic:cNvPicPr/></pic:nvPicPr><pic:blipFill><a:blip r:embed=\""
TokSvgBlip  == "\"><a:extLst><a:ext uri=\"{96DAC541-7B7A-43D3-8B79-37D633B846F1}\"><asvg:svgBlip xmlns:asvg=\"http://schemas.microsoft.com/office/drawing/2016/SVG/main\" r:embed=\""
TokExtCx    == "\"/></a:ext></a:extLst></a:blip><a:stretch><a:fillRect/></a:stretch></pic:blipFill><pic:spPr><a:xfrm><a:off x=\"0\" y=\"0\"/><a:ext cx=\""
TokEndP     == "\"/></a:xfrm><a:prstGeom prst=\"rect\"><a:avLst/></a:prstGeom></pic:spPr></pic:pic></a:graphicData></a:graphic></wp:inline></w:drawing></w:r></w:p>"
TokRId      == "rId"
TokRelId    == "<Relationship Id=\""
TokRelType  == "\" Type=\"http://schemas.openxmlformats.org/officeDocument/2006/relationships/image\" Target=\""
TokRelEnd   == "\"/>"
TokMedia    == "media/"

(* lib.rs 180-233 *)
PageBlockXml(width, height, svg_id, png_rid, svg_rid) ==
    << TokP, TokExtentCx >> \o Display(width) \o << TokCy >> \o Display(height)
    \o << TokDocPrId >> \o Display(svg_id) \o << TokName >> \o Display(svg_id)
    \o << TokBlip >> \o png_rid \o << TokSvgBlip >> \o svg_rid
    \o << TokExtCx >> \o Display(width) \o << TokCy >> \o Display(height)
    \o << TokEndP >>

(* lib.rs 244-246 *)
RelationshipXml(rid, target) ==
    << TokRelId >> \o rid \o << TokRelType >> \o target \o << TokRelEnd >>

(***************************************************************************)
(* struct Docx, lib.rs 101-110: the fields the methods change.  dir,       *)
(* media_dir, doc and rels are fixed paths inside the workspace.           *)
(***************************************************************************)
Size(wm, hm) == [w |-> F64Dec(wm), h |-> F64Dec(hm)]

(* lib.rs 126-135 *)
NewDocx ==
    [next_id     |-> 0,
     doc_string  |-> << >>,
     rels_string |-> << >>,
     size        |-> Size(793707, 1122520)]

(* A pre-increment slip: the counter is bumped before it is read. *)
next_id_preinc(self) ==
    [ret |-> self.next_id + 1, self |-> [self EXCEPT !.next_id = @ + 1]]

(* lib.rs 164-168 *)
next_id(self) ==
    [ret |-> self.next_id, self |-> [self EXCEPT !.next_id = @ + 1]]

(* lib.rs 239-248 *)
add_relationship(self, rid, filename) ==
    LET target == << TokMedia >> \o filename
    IN  [self EXCEPT !.rels_string = @ \o RelationshipXml(rid, target)]

(* The raster relationship is forgotten. *)
add_to_doc_svg_only(self, svg, png, size) ==
    LET a       == next_id(self)
        b       == next_id(a.self)
        svg_rid == << TokRId >> \o Display(a.ret)
        png_rid == << TokRId >> \o Display(b.ret)
        s1      == [b.self EXCEPT !.doc_string = @ \o
                       PageBlockXml(px_to_emu(size.w), px_to_emu(size.h),
                                    a.ret, png_rid, svg_rid)]
    IN  add_relationship(s1, svg_rid, get_filename(svg))

(* lib.rs 170-237 *)
add_to_doc(self, svg, png, size) ==
    LET a       == next_id(self)
        b       == next_id(a.self)
        svg_id  == a.ret
        png_id  == b.ret
        svg_rid == << TokRId >> \o Display(svg_id)
        png_rid == << TokRId >> \o Display(png_id)
        width   == px_to_emu(size.w)
        height  == px_to_emu(size.h)
        s1      == [b.self EXCEPT !.doc_string = @ \o
                       PageBlockXml(width, height, svg_id, png_rid, svg_rid)]
        s2      == add_relationship(s1, svg_rid, get_filename(svg))
    IN  add_relationship(s2, png_rid, get_filename(png))

(***************************************************************************)
(* Files.  An SVG file is what read_svg and save_png make of it: whether   *)
(* it can be read, whether usvg parses it, its size in px as written in    *)
(* the file (thousandths), and what rendering it does.                     *)
(***************************************************************************)
SvgFile(readable, wellformed, wm, hm, render) ==
    [kind |-> "svg", readable |-> readable, wellformed |-> wellformed,
     wm |-> wm, hm |-> hm, render |-> render]

PngFile ==
    [kind |-> "png", readable |-> TRUE, wellformed |-> TRUE,
     wm |-> 0, hm |-> 0, render |-> "none"]

PageSizes == { << 793707, 1122520 >>, << 720000, 1018000 >>, << 13000, 1800 >> }

SvgContents ==
    { SvgFile(FALSE, FALSE, 0, 0, "none"), SvgFile(TRUE, FALSE, 0, 0, "none") }
    \cup { SvgFile(TRUE, TRUE, s[1], s[2], "ok") : s \in PageSizes }
    \cup { SvgFile(TRUE, TRUE, 720000, 1018000, r) : r \in {"pixmap_none", "render_none"} }

(* What the extraction tool leaves behind when asked for a page past the  *)
(* end and it still writes a file.                                         *)
BogusSvg == SvgFile(TRUE, TRUE, 793707, 1122520, "ok")

(* The skeleton (fixtures/fixtures.zip, embedded at build time). *)
TokInsertHere == "!INSERT_HERE!"
TokWidth      == "!WIDTH!"
TokHeight     == "!HEIGHT!"
TokDocHead    == "<w:document><w:body>"
TokPgSzW      == "<w:sectPr><w:pgSz w:w=\""
TokPgSzH      == "\" w:h=\""
TokDocTail    == "\"/></w:sectPr></w:body></w:document>"
TokRelsHead   == "<Relationships>"
TokRelsTail   == "</Relationships>"

SkeletonDoc(k) ==
    << TokDocHead >> \o [i \in 1..k |-> TokInsertHere]
    \o << TokPgSzW, TokWidth, TokPgSzH, TokHeight, TokDocTail >>

SkeletonRels(k) ==
    << TokRelsHead >> \o [i \in 1..k |-> TokInsertHere] \o << TokRelsTail >>

(***************************************************************************)
(* Bounds.                                                                 *)
(***************************************************************************)
MaxPages  == 2
MaxOccur  == 2
MaxTenths == 130

(***************************************************************************)
(* read_svg, save_png, add_image_svg: lib.rs 77-89, 148-162.               *)
(* A call's outcome: the Result (or "Panic"), the place it stopped, and    *)
(* the Docx and the files as it leaves them.                               *)
(***************************************************************************)
Outcome(res, at, self, fs) == [res |-> res, at |-> at, self |-> self, fs |-> fs]

(* lib.rs 77-81 *)
read_svg(fs, src) ==
    IF src \notin DOMAIN fs \/ ~fs[src].readable
    THEN [res |-> "IoError", at |-> "read"]
    ELSE IF ~fs[src].wellformed
    THEN [res |-> "ImageError", at |-> "parse"]
    ELSE [res |-> "Ok", at |-> "", size |-> Size(fs[src].wm, fs[src].hm),
          render |-> fs[src].render]

(* lib.rs 83-89; png_write: how writing the file goes, "ok", "io" (the    *)
(* filesystem fails) or "encode". *)
save_png(fs, dst, tree, png_write) ==
    IF tree.render = "pixmap_none" THEN [res |-> "Panic", at |-> "pixmap", fs |-> fs]
    ELSE IF tree.render = "render_none"
    THEN [res |-> "ImageError", at |-> "render", fs |-> fs]
    ELSE IF png_write # "ok"
    THEN [res |-> "ImageError", at |-> "png_write", fs |-> fs]
    ELSE [res |-> "Ok", at |-> "", fs |-> (dst :> PngFile) @@ fs]

(* lib.rs 148-162 *)
(* lib.rs 159-161: the page is registered; the progress mark is flushed. *)
add_image_svg_flush(self, fs, env) ==
    IF ~env.stdout_ok THEN Outcome("IoError", "flush", self, fs)
    ELSE Outcome("Ok", "", self, fs)

(* lib.rs 152-158 *)
add_image_svg_copy(self, fs, svg, svg_copy, png, tree, env) ==
    IF svg # svg_copy /\ ~env.copy_ok
    THEN Outcome("IoError", "copy", self, fs)
    ELSE add_image_svg_flush(
             add_to_doc(self, svg_copy, png, tree.size),
             IF svg # svg_copy THEN (svg_copy :> fs[svg]) @@ fs ELSE fs,
             env)

(* lib.rs 151 *)
add_image_svg_saved(self, svg, png, tree, saved, env) ==
    IF saved.res # "Ok" THEN Outcome(saved.res, saved.at, self, saved.fs)
    ELSE add_image_svg_copy(self, saved.fs, svg, Path(MediaDir, svg.name),
                            png, tree, env)

(* lib.rs 149-151 *)
add_image_svg_tree(self, fs, svg, png, tree, env) ==
    IF tree.res # "Ok" THEN Outcome(tree.res, tree.at, self, fs)
    ELSE add_image_svg_saved(self, svg, png, tree,
                             save_png(fs, png, tree, env.png_write), env)

(* lib.rs 148-162 *)
add_image_svg(self, fs, svg, env) ==
    add_image_svg_tree(self, fs, svg, get_png_path(MediaDir, svg),
                       read_svg(fs, svg), env)

(* lib.rs 277-281 *)
insert_in_file(text, content) == Replace(text, TokInsertHere, content)

(* lib.rs 263-275 *)
change_size(text, size) ==
    Replace(Replace(text, TokWidth, Display(px_to_twenties_of_pt(size.w))),
            TokHeight, Display(px_to_twenties_of_pt(size.h)))

(* The last page is taken for the first. *)
FirstImageLast(images) == IF images = << >> THEN << >> ELSE << images[Len(images)] >>

(* images.get(0), lib.rs 318: none or the first element. *)
FirstImage(images) == IF images = << >> THEN << >> ELSE << images[1] >>

(***************************************************************************)
(* State.                                                                  *)
(***************************************************************************)
VARIABLES
    pc,          \* where the caller (main.rs convert, or a test) stands
    driver,      \* "cli": main.rs convert; "test": the unit tests of lib.rs
    stdout_ok,   \* whether writes to standard output succeed
    fixtures,    \* the embedded skeleton: [doc, rels]
    docx,        \* the Docx struct
    dir,         \* the TempDir's directory: "none" (never created), "exists",
                 \* "deleted", "left" (its removal was refused)
    deletions,   \* how many times the TempDir's removal ran
    doc_file,    \* word/document.xml
    rels_file,   \* word/_rels/document.xml.rels
    files,       \* the other files: path -> content
    page,        \* convert_pdf's page counter
    images,      \* convert_pdf's images vector
    idx,         \* position of try_for_each in images (1-based)
    result,      \* what the session returned: "" while it runs
    archive,     \* the destination file
    tool_log,    \* history: what the extraction tool did, page by page
    call,        \* history: the last add_image_svg call
    splices,     \* history: the insert_in_file calls
    size_sets,   \* history: assignments to self.size after construction
    convert_ok,  \* history: convert_pdf returned Ok
    unit         \* the unit conversions applied to one input

vars == << pc, driver, stdout_ok, fixtures, docx, dir, deletions,
           doc_file, rels_file, files, page, images, idx, result, archive,
           tool_log, call, splices, size_sets, convert_ok, unit >>

NoArchive == [state |-> "none", doc |-> << >>, rels |-> << >>, media |-> {}]
NoCall    == [fn |-> "none", at |-> "", cause |-> "", res |-> ""]
NoValue   == [done |-> FALSE, val |-> 0]
NoUnit    == [px |-> 0, emu |-> NoValue, twips |-> NoValue]

PngWrites == {"ok", "io", "encode"}

Fixtures ==
    { [doc |-> SkeletonDoc(k1), rels |-> SkeletonRels(k2)] :
          k1 \in 0..MaxOccur, k2 \in 0..MaxOccur }

Init ==
    /\ pc = "new"
    /\ driver \in {"cli", "test"}
    /\ stdout_ok \in BOOLEAN
    /\ fixtures \in Fixtures
    /\ docx = NewDocx
    /\ dir = "none"
    /\ deletions = 0
    /\ doc_file = << >>
    /\ rels_file = << >>
    /\ files = << >>
    /\ page = 0
    /\ images = << >>
    /\ idx = 0
    /\ result = ""
    /\ archive = NoArchive
    /\ tool_log = << >>
    /\ call = NoCall
    /\ splices = << >>
    /\ size_sets = 0
    /\ convert_ok = FALSE
    /\ unit = NoUnit

(***************************************************************************)
(* How a session ends.                                                     *)
(***************************************************************************)
(* The owner returns without the destructor running. *)
ScopeEndLeak(res) == pc' = "exit" /\ result' = res

(* The scope that owns the Docx ends (main.rs 47-56, or generate_docx      *)
(* consuming self, lib.rs 250-254): the value is dropped next.             *)
ScopeEnd(res) == pc' = "drop" /\ result' = res

(* The error is dropped and convert goes on to generate_docx. *)
ConvertPdfErrIgnored(res) == pc' = "insert_doc" /\ result' = result

(* docx.convert_pdf(src)?  main.rs 49 *)
ConvertPdfErr(res) == ScopeEnd(res)

(***************************************************************************)
(* Docx::new, lib.rs 113-146.                                              *)
(***************************************************************************)
(* What the caller makes of an Err of Docx::new: main.rs 48 passes it on   *)
(* with `?`, the tests unwrap it (lib.rs 341, 359, 378, 444, 451). *)
NewErr == IF driver = "cli" THEN "IoError" ELSE "Panic"

New ==
    /\ pc = "new"
    /\ \E o \in {"ok", "tempdir_err", "copy_err"} :
        IF o = "ok"
        THEN /\ dir' = "exists"
             /\ deletions' = deletions
             /\ doc_file' = fixtures.doc
             /\ rels_file' = fixtures.rels
             /\ docx' = NewDocx
             /\ pc' = IF driver = "cli" THEN "convert_pdf" ELSE "test"
             /\ result' = result
        ELSE IF o = "copy_err"
        THEN /\ dir' = "exists"
             /\ UNCHANGED << deletions, doc_file, rels_file, docx >>
             /\ ScopeEnd(NewErr)
        ELSE /\ dir' = "none"
             /\ UNCHANGED << deletions, doc_file, rels_file, docx >>
             /\ pc' = "exit"
             /\ result' = NewErr
    /\ UNCHANGED << driver, stdout_ok, fixtures, files, page, images, idx,
                    archive, tool_log, call, splices, size_sets, convert_ok, unit >>

(***************************************************************************)
(* convert_pdf, lib.rs 283-325.                                            *)
(***************************************************************************)
ToolOutcomes(p) ==
    { [out |-> o, c |-> BogusSvg] :
          o \in {"not_found", "spawn_err", "soft_file", "soft_nofile"} }
    \cup (IF p <= MaxPages THEN { [out |-> "ok", c |-> c] : c \in SvgContents }
          ELSE {})

RemoveFile(fs, f) == [x \in DOMAIN fs \ {f} |-> fs[x]]

(* One turn of the loop, lib.rs 287-316. *)
ExtractPage ==
    /\ pc = "convert_pdf"
    /\ LET p     == page + 1
           image == PageSvg(p)
       IN  \E o \in ToolOutcomes(p) :
            /\ page' = p
            /\ tool_log' = Append(tool_log, o)
            /\ IF o.out = "not_found"
               THEN UNCHANGED << files, images >> /\ ConvertPdfErr("InkscapeNotFound")
               ELSE IF o.out = "spawn_err"
               THEN UNCHANGED << files, images >> /\ ConvertPdfErr("IoError")
               ELSE
               LET fs1 == IF o.out \in {"ok", "soft_file"}
                          THEN (image :> o.c) @@ files ELSE files
               IN  IF ~stdout_ok
                   THEN files' = fs1 /\ images' = images /\ ConvertPdfErr("IoError")
                   ELSE IF o.out = "ok"
                   THEN /\ files' = fs1
                        /\ images' = Append(images, image)
                        /\ UNCHANGED << pc, result >>
                   ELSE IF image \notin DOMAIN fs1
                   THEN files' = fs1 /\ images' = images /\ ConvertPdfErr("IoError")
                   ELSE /\ files' = RemoveFile(fs1, image)
                        /\ images' = images
                        /\ pc' = "loop_done"
                        /\ result' = result
    /\ UNCHANGED << driver, stdout_ok, fixtures, docx, dir, deletions,
                    doc_file, rels_file, idx, archive, call, splices,
                    size_sets, convert_ok, unit >>

(* println!(" Done.") and break, lib.rs 314-315: println! writes its line *)
(* out and panics when standard output fails. *)
LoopDone ==
    /\ pc = "loop_done"
    /\ IF ~stdout_ok THEN ScopeEnd("Panic")
       ELSE pc' = "first_size" /\ result' = result
    /\ UNCHANGED << driver, stdout_ok, fixtures, docx, dir, deletions,
                    doc_file, rels_file, files, page, images, idx, archive,
                    tool_log, call, splices, size_sets, convert_ok, unit >>

(* self.size = read_svg(..)?.svg_node().size; println!("Done."),           *)
(* lib.rs 318-321: the println! panics when standard output fails. *)
SetSize(t) ==
    IF t.res # "Ok"
    THEN UNCHANGED << docx, size_sets, idx >> /\ ConvertPdfErr(t.res)
    ELSE /\ docx' = [docx EXCEPT !.size = t.size]
         /\ size_sets' = size_sets + 1
         /\ IF ~stdout_ok
            THEN idx' = idx /\ ScopeEnd("Panic")
            ELSE idx' = idx /\ pc' = "start_adding" /\ result' = result

(* lib.rs 317-321 *)
ReadFirstSize ==
    /\ pc = "first_size"
    /\ IF FirstImage(images) = << >>
       THEN UNCHANGED << docx, size_sets, idx >> /\ ConvertPdfErr("PDFInvalid")
       ELSE SetSize(read_svg(files, FirstImage(images)[1]))
    /\ UNCHANGED << driver, stdout_ok, fixtures, dir, deletions, doc_file,
                    rels_file, files, page, images, archive, tool_log, call,
                    splices, convert_ok, unit >>

(* print!("Adding all the images "); io::stdout().flush()?, lib.rs        *)
(* 322-323, before the first element of try_for_each. *)
StartAdding ==
    /\ pc = "start_adding"
    /\ IF ~stdout_ok THEN idx' = idx /\ ConvertPdfErr("IoError")
       ELSE idx' = 1 /\ pc' = "add_images" /\ result' = result
    /\ UNCHANGED << driver, stdout_ok, fixtures, docx, dir, deletions,
                    doc_file, rels_file, files, page, images, archive,
                    tool_log, call, splices, size_sets, convert_ok, unit >>

CallOf(r, pw) ==
    [fn |-> "add_image_svg", at |-> r.at,
     cause |-> IF r.at = "png_write" THEN pw ELSE "", res |-> r.res]

(* try_for_each goes on after Ok and returns the first Err; a panic      *)
(* unwinds through the caller. *)
AddImageResult(r, pw) ==
    /\ (pw = "ok" \/ r.at = "png_write")
    /\ docx' = r.self
    /\ files' = r.fs
    /\ call' = CallOf(r, pw)
    /\ IF r.res = "Ok" THEN idx' = idx + 1 /\ UNCHANGED << pc, result >>
       ELSE IF r.res = "Panic" THEN idx' = idx /\ ScopeEnd("Panic")
       ELSE idx' = idx /\ ConvertPdfErr(r.res)

(* One element of images.iter().try_for_each(..), lib.rs 324. *)
AddImage ==
    /\ pc = "add_images"
    /\ idx <= Len(images)
    /\ \E pw \in PngWrites :
        AddImageResult(
            add_image_svg(docx, files, images[idx],
                [png_write |-> pw, copy_ok |-> TRUE, stdout_ok |-> stdout_ok]),
            pw)
    /\ UNCHANGED << driver, stdout_ok, fixtures, dir, deletions, doc_file,
                    rels_file, page, images, archive, tool_log, splices,
                    size_sets, convert_ok, unit >>

(* convert_pdf returns Ok; println!("Done"), main.rs 49-50: the println!  *)
(* panics when standard output fails. *)
ConvertReturned ==
    /\ pc = "add_images"
    /\ idx > Len(images)
    /\ convert_ok' = TRUE
    /\ IF ~stdout_ok THEN ScopeEnd("Panic")
       ELSE pc' = "generating" /\ result' = result
    /\ UNCHANGED << driver, stdout_ok, fixtures, docx, dir, deletions,
                    doc_file, rels_file, files, page, images, idx, archive,
                    tool_log, call, splices, size_sets, unit >>

(* print!("Generating the final result ... "); io::stdout().flush()?,      *)
(* main.rs 51-52, before generate_docx is called. *)
AnnounceGenerate ==
    /\ pc = "generating"
    /\ IF ~stdout_ok THEN ScopeEnd("IoError")
       ELSE pc' = "insert_doc" /\ result' = result
    /\ UNCHANGED << driver, stdout_ok, fixtures, docx, dir, deletions,
                    doc_file, rels_file, files, page, images, idx, archive,
                    tool_log, call, splices, size_sets, convert_ok, unit >>

(***************************************************************************)
(* The unit tests as callers, lib.rs 357-455.                              *)
(***************************************************************************)
TestSvg == Path(TestsDir, << "2", ".", "svg" >>)

(* .unwrap(): an Err panics and the test ends. *)
TestAddImageResult(r, pw, copy_ok) ==
    /\ (pw = "ok" \/ r.at = "png_write")
    /\ (copy_ok \/ r.at = "copy")
    /\ docx' = r.self
    /\ files' = r.fs
    /\ call' = CallOf(r, pw)
    /\ IF r.res = "Ok" THEN UNCHANGED << pc, result >> ELSE ScopeEnd("Panic")

(* docx.add_image_svg(&get_test_svg()).unwrap(), lib.rs 379, 452 *)
TestAddImage ==
    /\ pc = "test"
    /\ docx.next_id < 2 * MaxPages
    /\ \E c \in SvgContents, pw \in PngWrites, copy_ok \in BOOLEAN :
        TestAddImageResult(
            add_image_svg(docx, (TestSvg :> c) @@ files, TestSvg,
                [png_write |-> pw, copy_ok |-> copy_ok, stdout_ok |-> stdout_ok]),
            pw, copy_ok)
    /\ UNCHANGED << driver, stdout_ok, fixtures, dir, deletions, doc_file,
                    rels_file, page, images, idx, archive, tool_log, splices,
                    size_sets, convert_ok, unit >>

(* docx.generate_docx(..), lib.rs 453 *)
TestGenerate ==
    /\ pc = "test"
    /\ pc' = "insert_doc"
    /\ UNCHANGED << driver, stdout_ok, fixtures, docx, dir, deletions,
                    doc_file, rels_file, files, page, images, idx, result,
                    archive, tool_log, call, splices, size_sets, convert_ok, unit >>

(* drop(docx), lib.rs 362, or the end of a test. *)
TestDrop ==
    /\ pc = "test"
    /\ ScopeEnd("Ok")
    /\ UNCHANGED << driver, stdout_ok, fixtures, docx, dir, deletions,
                    doc_file, rels_file, files, page, images, idx,
                    archive, tool_log, call, splices, size_sets, convert_ok, unit >>

(***************************************************************************)
(* generate_docx, lib.rs 250-281.                                          *)
(***************************************************************************)
(* What the caller makes of an Err of generate_docx: main.rs 53 passes it *)
(* on with `?`, the tests unwrap it (lib.rs 453-454). *)
GenerateErr == IF driver = "cli" THEN "IoError" ELSE "Panic"

(* generate_docx returns Ok(()), lib.rs 253-254: self, which it consumed,  *)
(* goes out of scope there; the caller has not ended yet. *)
GenerateOk == pc' = "drop" /\ result' = result

Splice(file, text, io_ok) ==
    [file |-> file, occ |-> Count(text, TokInsertHere),
     res |-> IF io_ok THEN "Ok" ELSE "IoError"]

(* Docx::insert_in_file(&self.doc, &self.doc_string)?, lib.rs 257 *)
InsertDoc ==
    /\ pc = "insert_doc"
    /\ \E io_ok \in BOOLEAN :
        /\ splices' = Append(splices, Splice("doc", doc_file, io_ok))
        /\ IF io_ok
           THEN /\ doc_file' = insert_in_file(doc_file, docx.doc_string)
                /\ pc' = "insert_rels"
                /\ result' = result
           ELSE doc_file' = doc_file /\ ScopeEnd(GenerateErr)
    /\ UNCHANGED << driver, stdout_ok, fixtures, docx, dir, deletions,
                    rels_file, files, page, images, idx, archive, tool_log,
                    call, size_sets, convert_ok, unit >>

(* Docx::insert_in_file(&self.rels, &self.rels_string)?, lib.rs 258 *)
InsertRels ==
    /\ pc = "insert_rels"
    /\ \E io_ok \in BOOLEAN :
        /\ splices' = Append(splices, Splice("rels", rels_file, io_ok))
        /\ IF io_ok
           THEN /\ rels_file' = insert_in_file(rels_file, docx.rels_string)
                /\ pc' = "change_size"
                /\ result' = result
           ELSE rels_file' = rels_file /\ ScopeEnd(GenerateErr)
    /\ UNCHANGED << driver, stdout_ok, fixtures, docx, dir, deletions,
                    doc_file, files, page, images, idx, archive, tool_log,
                    call, size_sets, convert_ok, unit >>

(* self.change_size()?, lib.rs 259 *)
ChangeSize ==
    /\ pc = "change_size"
    /\ \E io_ok \in BOOLEAN :
        IF io_ok
        THEN /\ doc_file' = change_size(doc_file, docx.size)
             /\ pc' = "zip"
             /\ result' = result
        ELSE doc_file' = doc_file /\ ScopeEnd(GenerateErr)
    /\ UNCHANGED << driver, stdout_ok, fixtures, docx, dir, deletions,
                    rels_file, files, page, images, idx, archive, tool_log,
                    call, splices, size_sets, convert_ok, unit >>

MediaFiles(fs) == {f \in DOMAIN fs : f.dir = MediaDir}

(* zip_create_from_directory(p, dir)?, lib.rs 252: the archive mirrors    *)
(* the workspace, or the call fails before or while writing it.            *)
Zip ==
    /\ pc = "zip"
    /\ \E z \in {"ok", "create_err", "write_err"} :
        /\ archive' =
              IF z = "ok"
              THEN [state |-> "complete", doc |-> doc_file, rels |-> rels_file,
                    media |-> MediaFiles(files)]
              ELSE IF z = "write_err" THEN [NoArchive EXCEPT !.state = "partial"]
              ELSE archive
        /\ IF z = "ok" THEN GenerateOk ELSE ScopeEnd(GenerateErr)
    /\ UNCHANGED << driver, stdout_ok, fixtures, docx, dir, deletions,
                    doc_file, rels_file, files, page, images, idx, tool_log,
                    call, splices, size_sets, convert_ok, unit >>

(* impl Drop for TempDir, run when the Docx that owns it (lib.rs 102)     *)
(* goes out of scope: the workspace and all in it are removed; when the    *)
(* filesystem refuses, the error is discarded and the directory is left    *)
(* behind.  After an Ok of generate_docx the caller goes on (main.rs 54);  *)
(* in every other case it has ended. *)
Drop ==
    /\ pc = "drop"
    /\ deletions' = deletions + 1
    /\ \E removed \in BOOLEAN :
        IF removed
        THEN /\ dir' = "deleted"
             /\ doc_file' = << >>
             /\ rels_file' = << >>
             /\ files' = [f \in DOMAIN files \ MediaFiles(files) |-> files[f]]
        ELSE /\ dir' = "left"
             /\ UNCHANGED << doc_file, rels_file, files >>
    /\ pc' = IF result = "" THEN "finish" ELSE "exit"
    /\ UNCHANGED << driver, stdout_ok, fixtures, docx, page, images, idx, result,
                    archive, tool_log, call, splices, size_sets, convert_ok, unit >>

(* After generate_docx returned Ok: println!("Done."); Ok(()), main.rs     *)
(* 54-55, where the println! panics when standard output fails; a test     *)
(* ends after its unwrap (lib.rs 453-455). *)
Finish ==
    /\ pc = "finish"
    /\ pc' = "exit"
    /\ result' = IF driver = "cli" /\ ~stdout_ok THEN "Panic" ELSE "Ok"
    /\ UNCHANGED << driver, stdout_ok, fixtures, docx, dir, deletions,
                    doc_file, rels_file, files, page, images, idx, archive,
                    tool_log, call, splices, size_sets, convert_ok, unit >>

(* Standard output stops taking writes (its reader went away) while the   *)
(* session still writes to it. *)
StdoutBreaks ==
    /\ pc \in {"convert_pdf", "loop_done", "first_size", "start_adding",
               "add_images", "generating", "test",
               "insert_doc", "insert_rels", "change_size", "zip",
               "drop", "finish"}
    /\ stdout_ok
    /\ stdout_ok' = FALSE
    /\ UNCHANGED << pc, driver, fixtures, docx, dir, deletions, doc_file,
                    rels_file, files, page, images, idx, result, archive,
                    tool_log, call, splices, size_sets, convert_ok, unit >>

Next ==
    \/ StdoutBreaks
    \/ New
    \/ ExtractPage
    \/ LoopDone
    \/ ReadFirstSize
    \/ StartAdding
    \/ AddImage
    \/ ConvertReturned
    \/ AnnounceGenerate
    \/ TestAddImage
    \/ TestGenerate
    \/ TestDrop
    \/ InsertDoc
    \/ InsertRels
    \/ ChangeSize
    \/ Zip
    \/ Drop
    \/ Finish

Spec == Init /\ [][Next]_vars

(***************************************************************************)
(* The unit conversions on their own: one pixel value, written with three *)
(* decimals, is converted by each function and used as a page size by      *)
(* add_to_doc.                                                             *)
(***************************************************************************)
UnitInputs ==
    { 100 * k : k \in (0 - MaxTenths)..MaxTenths }
    \cup { 793707, 1122520, 720000, 1018000 }

InitUnits ==
    /\ pc = "units"
    /\ driver = "units"
    /\ stdout_ok = TRUE
    /\ fixtures = [doc |-> SkeletonDoc(1), rels |-> SkeletonRels(1)]
    /\ docx = NewDocx
    /\ dir = "none"
    /\ deletions = 0
    /\ doc_file = << >>
    /\ rels_file = << >>
    /\ files = << >>
    /\ page = 0
    /\ images = << >>
    /\ idx = 0
    /\ result = ""
    /\ archive = NoArchive
    /\ tool_log = << >>
    /\ call = NoCall
    /\ splices = << >>
    /\ size_sets = 0
    /\ convert_ok = FALSE
    /\ \E m \in UnitInputs : unit = [NoUnit EXCEPT !.px = m]

UnitsUnchanged ==
    UNCHANGED << pc, driver, stdout_ok, fixtures, dir, deletions, doc_file,
                 rels_file, files, page, images, idx, result, archive, tool_log,
                 call, splices, size_sets, convert_ok >>

ApplyPxToEmu ==
    /\ pc = "units"
    /\ ~unit.emu.done
    /\ unit' = [unit EXCEPT !.emu = [done |-> TRUE, val |-> px_to_emu(F64Dec(unit.px))]]
    /\ docx' = docx
    /\ UnitsUnchanged

ApplyPxToTwentiesOfPt ==
    /\ pc = "units"
    /\ ~unit.twips.done
    /\ unit' = [unit EXCEPT !.twips =
                   [done |-> TRUE, val |-> px_to_twenties_of_pt(F64Dec(unit.px))]]
    /\ docx' = docx
    /\ UnitsUnchanged

(* A page of unit.px by unit.px is registered (a usvg::Size is positive). *)
ApplyAddToDoc ==
    /\ pc = "units"
    /\ unit.px > 0
    /\ docx.next_id = 0
    /\ docx' = add_to_doc(docx, PageSvg(1), get_png_path(MediaDir, PageSvg(1)),
                          Size(unit.px, unit.px))
    /\ unit' = unit
    /\ UnitsUnchanged

NextUnits == ApplyPxToEmu \/ ApplyPxToTwentiesOfPt \/ ApplyAddToDoc

SpecUnits == InitUnits /\ [][NextUnits]_vars

(***************************************************************************)
(* Reading the strings back.                                               *)
(***************************************************************************)
(* The number of the reference rId<N> written at position i, -1 if none. *)
RIdAt(s, i) ==
    IF i <= Len(s) /\ s[i] = TokRId THEN NumAt(s, i + 1) ELSE -1

(* The identifiers after each occurrence of token t, in order. *)
RIdsAfter(s, t) ==
    LET P == Positions(s, t)
    IN  [k \in 1..Len(P) |-> RIdAt(s, P[k] + 1)]

Range(f) == {f[k] : k \in DOMAIN f}

(* Identifiers a content string refers to: the r:embed attributes. *)
EmbedIds(doc) == Range(RIdsAfter(doc, TokBlip)) \cup Range(RIdsAfter(doc, TokSvgBlip))

(* Identifiers a relationship string declares, in order. *)
DeclaredIds(rels) == RIdsAfter(rels, TokRelId)

(* The extension token of each relationship's target, in order. *)
TargetKinds(rels) ==
    LET P == Positions(rels, TokRelEnd)
    IN  [k \in 1..Len(P) |-> rels[P[k] - 1]]

(* The page number each relationship's target file name starts with. *)
TargetPages(rels) ==
    LET P == Positions(rels, TokMedia)
    IN  [k \in 1..Len(P) |-> NumAt(rels, P[k] + 1)]

PageBlocks(doc) == Count(doc, TokP)

NumsAfter(s, t) ==
    LET P == Positions(s, t)
    IN  [k \in 1..Len(P) |-> NumAt(s, P[k] + 1)]

(***************************************************************************)
(* C1.  At every moment of a session the identifiers the content string   *)
(* refers to (r:embed="rId<N>") are exactly the identifiers the            *)
(* relationship string declares (Id="rId<N>").                             *)
(***************************************************************************)
C1_ReferencesMatchRelationships ==
    EmbedIds(docx.doc_string) = Range(DeclaredIds(docx.rels_string))

C1_Witness ==
    /\ PageBlocks(docx.doc_string) = 2
    /\ EmbedIds(docx.doc_string) = {0, 1, 2, 3}

(***************************************************************************)
(* C2.  The k-th registered page refers to vector identifier 2(k-1) and   *)
(* raster identifier 2(k-1)+1; the relationships are declared in the order *)
(* 0, 1, 2, ..., vector file before raster file; the counter stands at     *)
(* twice the number of pages.                                              *)
(***************************************************************************)
C2_IdentifiersInOrder ==
    LET doc  == docx.doc_string
        rels == docx.rels_string
        n    == PageBlocks(doc)
    IN  /\ docx.next_id = 2 * n
        /\ RIdsAfter(doc, TokSvgBlip) = [k \in 1..n |-> 2 * (k - 1)]
        /\ RIdsAfter(doc, TokBlip) = [k \in 1..n |-> 2 * (k - 1) + 1]
        /\ NumsAfter(doc, TokDocPrId) = [k \in 1..n |-> 2 * (k - 1)]
        /\ DeclaredIds(rels) = [k \in 1..(2 * n) |-> k - 1]
        /\ TargetKinds(rels) = [k \in 1..(2 * n) |-> IF k % 2 = 1 THEN "svg" ELSE "png"]

C2_Witness ==
    /\ PageBlocks(docx.doc_string) = 2
    /\ DeclaredIds(docx.rels_string) = << 0, 1, 2, 3 >>

(***************************************************************************)
(* C3.  As claimed: an insert_in_file on a file in which !INSERT_HERE!     *)
(* occurs zero times or more than once does not return Ok.                 *)
(***************************************************************************)
C3_SpliceRejectsBadSkeleton ==
    \A i \in 1..Len(splices) : splices[i].occ # 1 => splices[i].res # "Ok"

(***************************************************************************)
(* C4, as claimed: the workspace is deleted exactly once on every path,    *)
(* and once the session object is gone no path leaves the directory on     *)
(* disk.                                                                   *)
(***************************************************************************)
C4_WorkspaceDeletedOnce ==
    /\ deletions <= 1
    /\ pc \in {"finish", "exit"} => dir \in {"none", "deleted"}
    /\ (dir = "deleted") = (deletions = 1)
    /\ pc \notin {"new", "finish", "exit", "units"} => dir = "exists"
    /\ (pc = "exit" /\ dir = "none") => (result = NewErr /\ page = 0)

(***************************************************************************)
(* C4, amended: the removal of the workspace runs exactly once when the    *)
(* session object goes out of scope, on every path, and never while the    *)
(* object lives; afterwards the directory is gone unless the filesystem    *)
(* refused the removal, in which case it is left on disk and nothing is    *)
(* reported.  Only when the directory could not be created is there        *)
(* nothing to remove.                                                      *)
(***************************************************************************)
C4_WorkspaceRemovalRunsOnce ==
    /\ deletions <= 1
    /\ pc \in {"finish", "exit"} => dir \in {"none", "deleted", "left"}
    /\ (dir \in {"deleted", "left"}) = (deletions = 1)
    /\ pc \notin {"new", "finish", "exit", "units"} => dir = "exists"
    /\ (pc = "exit" /\ dir = "none") => (result = NewErr /\ page = 0)

C4_Witness ==
    /\ pc = "exit"
    /\ driver = "cli"
    /\ result = "Ok"
    /\ archive.state = "complete"
    /\ dir = "left"
    /\ deletions = 1

(***************************************************************************)
(* What the extraction tool did, read from the history.                    *)
(***************************************************************************)
SoftFailure(o) == o.out \in {"soft_file", "soft_nofile"}

GoodPage(o) ==
    /\ o.out = "ok"
    /\ o.c.readable
    /\ o.c.wellformed
    /\ o.c.render = "ok"

(* The tool gave n good pages and then a soft failure, and nothing outside *)
(* the tool went wrong: standard output works, no registration failed.     *)
PagesThenSoftFailure(n) ==
    /\ driver = "cli"
    /\ stdout_ok
    /\ pc = "exit"
    /\ Len(tool_log) = n + 1
    /\ \A k \in 1..n : GoodPage(tool_log[k])
    /\ SoftFailure(tool_log[n + 1])
    /\ call.res \in {"", "Ok"}

(***************************************************************************)
(* C5.  As claimed: for N >= 2, when the tool succeeds for pages 1..N-1    *)
(* and reports a soft failure for page N, extraction stops at page N and   *)
(* exactly the pages 1..N-1 are registered, one block each, in increasing  *)
(* page order.                                                             *)
(***************************************************************************)
C5_SoftFailureEndsDocument ==
    \A n \in 1..MaxPages :
        PagesThenSoftFailure(n) =>
            /\ page = n + 1
            /\ PageBlocks(docx.doc_string) = n
            /\ TargetPages(docx.rels_string) = [k \in 1..(2 * n) |-> (k + 1) \div 2]

(***************************************************************************)
(* C6.  As claimed: when the tool reports a soft failure already for page  *)
(* 1, the session ends with PDFInvalid and no page is registered.          *)
(***************************************************************************)
C6_NoPagesIsPDFInvalid ==
    PagesThenSoftFailure(0) =>
        /\ result = "PDFInvalid"
        /\ docx.next_id = 0
        /\ docx.doc_string = << >>
        /\ docx.rels_string = << >>

(***************************************************************************)
(* C7.  In a session driven by the CLI, generate_docx is reached only      *)
(* after convert_pdf returned Ok, with every extracted page registered;    *)
(* when convert_pdf did not return Ok, no destination archive is written,  *)
(* not even in part.                                                       *)
(***************************************************************************)
C7_ArchiveOnlyAfterFullSuccess ==
    driver = "cli" =>
        /\ (pc \in {"generating", "insert_doc", "insert_rels", "change_size", "zip"})
              => convert_ok
        /\ archive.state # "none" => convert_ok
        /\ splices # << >> => convert_ok
        /\ convert_ok =>
              /\ Len(images) >= 1
              /\ PageBlocks(docx.doc_string) = Len(images)
              /\ Len(DeclaredIds(docx.rels_string)) = 2 * Len(images)
              /\ \A k \in 1..Len(images) : tool_log[k].out = "ok"
        /\ (archive.state = "complete" /\ Count(fixtures.doc, TokInsertHere) = 1)
              => PageBlocks(archive.doc) = Len(images)

C7_Witness ==
    /\ driver = "cli"
    /\ pc = "exit"
    /\ result = "Ok"
    /\ archive.state = "complete"
    /\ PageBlocks(archive.doc) = 2

(***************************************************************************)
(* C8.  The page geometry is assigned once in a session, from the size of  *)
(* page 1, and that is the value written for !WIDTH! and !HEIGHT!,         *)
(* whatever the sizes of later pages; a 2-page source yields an archive    *)
(* with 2 blocks, relationships 0..3 and the geometry of page 1.           *)
(***************************************************************************)
PageOneSize == Size(tool_log[1].c.wm, tool_log[1].c.hm)

C8_GeometryFromFirstPage ==
    /\ size_sets <= 1
    /\ driver = "cli" =>
        /\ (pc \in {"start_adding", "add_images", "generating", "insert_doc",
                    "insert_rels", "change_size", "zip"}
              \/ convert_ok)
             => (size_sets = 1 /\ docx.size = PageOneSize)
        /\ archive.state = "complete" =>
              /\ NumsAfter(archive.doc, TokPgSzW)
                    = << px_to_twenties_of_pt(PageOneSize.w) >>
              /\ NumsAfter(archive.doc, TokPgSzH)
                    = << px_to_twenties_of_pt(PageOneSize.h) >>
        /\ (/\ archive.state = "complete"
            /\ Len(images) = 2
            /\ Count(fixtures.doc, TokInsertHere) = 1
            /\ Count(fixtures.rels, TokInsertHere) = 1)
              => /\ PageBlocks(archive.doc) = 2
                 /\ DeclaredIds(archive.rels) = << 0, 1, 2, 3 >>
                 /\ Cardinality(archive.media) = 4

C8_Witness ==
    /\ driver = "cli"
    /\ archive.state = "complete"
    /\ Len(images) = 2
    /\ Count(fixtures.doc, TokInsertHere) = 1
    /\ Count(fixtures.rels, TokInsertHere) = 1
    /\ tool_log[1].c.wm = 793707
    /\ tool_log[2].c.wm = 13000
    /\ NumsAfter(archive.doc, TokPgSzW) = << 11905 >>
    /\ NumsAfter(archive.doc, TokPgSzH) = << 16837 >>

(***************************************************************************)
(* C9.  As claimed: add_image_svg fails with ImageError if and only if the *)
(* vector file cannot be parsed or rendered, and with IoError on every     *)
(* filesystem failure: reading the vector file, writing the raster file,   *)
(* copying the vector file into the media area.                            *)
(***************************************************************************)
FilesystemFailure(c) ==
    \/ c.at \in {"read", "copy"}
    \/ (c.at = "png_write" /\ c.cause = "io")

ParseOrRenderFailure(c) ==
    \/ c.at \in {"parse", "pixmap", "render"}
    \/ (c.at = "png_write" /\ c.cause = "encode")

C9_FailuresByCause ==
    (call.fn = "add_image_svg" /\ call.res # "Ok") =>
        /\ (call.res = "ImageError") = ParseOrRenderFailure(call)
        /\ FilesystemFailure(call) => call.res = "IoError"

(***************************************************************************)
(* The unit conversions in exact arithmetic.  A pixel value of m           *)
(* thousandths is m * 3 / 200 twentieths of a point (m/1000 / 96 * 1440)  *)
(* and m * 381 / 40 EMU (m/1000 / 96 * 914400).                            *)
(***************************************************************************)
TruncDiv(a, b) == IF a >= 0 THEN a \div b ELSE 0 - ((0 - a) \div b)

Sgn(a) == IF a > 0 THEN 1 ELSE IF a < 0 THEN 0 - 1 ELSE 0

ExactTwips(m) == [num |-> m * 3, den |-> 200]
ExactEmu(m)   == [num |-> m * 381, den |-> 40]

Trunc(q) == TruncDiv(q.num, q.den)

IsInteger(q) == q.num % q.den = 0

(* Round half away from zero, as f64::round does. *)
Nearest(q) == TruncDiv(2 * q.num + Sgn(q.num) * q.den, 2 * q.den)

(* r is the truncation of q, or, only where q is an integer, the integer   *)
(* next to it on the side of zero. *)
TruncatesProduct(r, q) ==
    IF IsInteger(q) THEN r \in {Trunc(q), Trunc(q) - Sgn(q.num)}
    ELSE r = Trunc(q)

ExtentsOf(doc) ==
    [inline_cx |-> NumsAfter(doc, TokExtentCx),
     shape_cx  |-> NumsAfter(doc, TokExtCx),
     cy        |-> NumsAfter(doc, TokCy)]

ExtentsCarry(doc, e) ==
    PageBlocks(doc) = 1 =>
        /\ ExtentsOf(doc).inline_cx = << e >>
        /\ ExtentsOf(doc).shape_cx = << e >>
        /\ ExtentsOf(doc).cy = << e, e >>

(***************************************************************************)
(* C10, as claimed: each conversion is the truncation toward zero of the   *)
(* exact value of px / 96 * 72 * 20, resp. px / 96 * 914400, for every     *)
(* input; px_to_twenties_of_pt(793.707) = 11905; the inline extent and the *)
(* shape extent of a page carry the same px_to_emu values.                 *)
(***************************************************************************)
C10_TruncatesExactValue ==
    /\ unit.twips.done => unit.twips.val = Trunc(ExactTwips(unit.px))
    /\ unit.emu.done => unit.emu.val = Trunc(ExactEmu(unit.px))
    /\ (unit.twips.done /\ unit.px = 793707) => unit.twips.val = 11905
    /\ unit.emu.done => ExtentsCarry(docx.doc_string, unit.emu.val)

(***************************************************************************)
(* C10, amended: each conversion truncates toward zero the double that the *)
(* code's left-to-right product gives, and never rounds to nearest; the    *)
(* result is the truncation of the exact value, except that where the      *)
(* exact value is an integer the double can fall short of it and the       *)
(* result is then one nearer to zero; px_to_twenties_of_pt(793.707) =      *)
(* 11905; the inline extent and the shape extent of a page carry the same  *)
(* px_to_emu values.                                                       *)
(***************************************************************************)
C10_TruncatesDoubleProduct ==
    /\ unit.twips.done => TruncatesProduct(unit.twips.val, ExactTwips(unit.px))
    /\ unit.emu.done => TruncatesProduct(unit.emu.val, ExactEmu(unit.px))
    /\ (unit.twips.done /\ unit.px = 793707) => unit.twips.val = 11905
    /\ unit.emu.done => ExtentsCarry(docx.doc_string, unit.emu.val)

C10_Witness ==
    /\ unit.px = 793707
    /\ unit.twips.done
    /\ unit.twips.val = 11905
    /\ Nearest(ExactTwips(unit.px)) = 11906
    /\ unit.emu.done
    /\ unit.emu.val = 7560059
    /\ ExtentsOf(docx.doc_string).inline_cx = << 7560059 >>
    /\ ExtentsOf(docx.doc_string).shape_cx = << 7560059 >>

=============================================================================
